---- MODULE Spec2Model ----
(***************************************************************************)
(* Model of comfyapi.py: a client that loads a workflow, injects a prompt  *)
(* into node "6", POSTs it to /prompt, polls /history/<id> until the job   *)
(* is completed or a timeout elapses, selects the last image of the        *)
(* numerically largest output node and downloads it from /view.            *)
(*                                                                         *)
(* JSON objects are functions from keys to values; an optional key is a    *)
(* has<Key> flag next to the value.  Python exceptions keep their names:   *)
(*   JSONDecodeError = ParseError, KeyError = MissingNodeError and         *)
(*   MalformedResponseError, HTTPError = TransportError,                   *)
(*   ValueError = ValidationError, TimeoutError = TimeoutError.            *)
(* Time is an integer clock; a POST /prompt and a GET /history each take   *)
(* at least one tick.                                                      *)
(***************************************************************************)
EXTENDS Integers, Sequences, FiniteSets, TLC

\* ------------------------------------------------------------ bounds
MaxTimeout == 2   \* generar's timeout ranges over 0..MaxTimeout
MaxPoll == 2      \* generar's poll_interval ranges over 0..MaxPoll
MaxReqDur == 2    \* an HTTP request takes 1..MaxReqDur ticks
MaxNodes == 3     \* output nodes in a history record given to _pick_last_image
MaxNodeId == 10   \* output node ids are the decimal strings of 0..MaxNodeId

VARIABLES
    entry,      \* the function that was called: "generar", "_post_prompt", "_pick_last_image"
    pc,         \* position in the called function
    result,     \* "running", "returned", or the name of the exception raised
    fileValid,  \* whether the workflow file holds valid JSON
    workflow,   \* the parsed workflow (node id -> node); mutated by generar
    timeout,    \* generar's timeout parameter
    poll,       \* generar's poll_interval parameter
    postArg,    \* the mapping handed to _post_prompt
    body,       \* sequence of JSON bodies POSTed to /prompt
    clock,      \* time.time()
    t0,         \* _wait_until_done's t0
    lastObs,    \* the last response to GET /history/<id> and the elapsed time read after it
    sawPending, \* an earlier poll saw the job id with status.completed not true
    pollRet,    \* what _wait_until_done returned
    pickArg,    \* the status object handed to _pick_last_image
    picked,     \* what _pick_last_image returned or raised
    log,        \* the HTTP requests issued so far, in order, with their outcome
    files,      \* local image files written
    retPath     \* the path generar returned

vars == <<entry, pc, result, fileValid, workflow, timeout, poll, postArg, body,
          clock, t0, lastObs, sawPending, pollRet, pickArg, picked, log, files, retPath>>

\* ------------------------------------------------------------ JSON values
JobId == "job-1"      \* the prompt_id the server assigns
OtherId == "job-0"    \* some other job's id
PromptText == "new prompt"

EmptyMap == [k \in {} |-> 0]

\* A workflow node: "inputs" is optional, "text" inside it too.
WfNode(hasInputs, text) == [hasInputs |-> hasInputs, text |-> text]

\* The workflows a file may hold: with or without node "6", with or without its "inputs".
Workflows ==
    { ("3" :> WfNode(TRUE, "<none>")),
      ("6" :> WfNode(FALSE, "<none>")),
      ("6" :> WfNode(TRUE, "old prompt")),
      ("3" :> WfNode(TRUE, "<none>")) @@ ("6" :> WfNode(TRUE, "<none>")) }

\* str(n) as a sequence of decimal digits.
RECURSIVE Dec(_)
Dec(n) == IF n < 10 THEN <<n>> ELSE Dec(n \div 10) \o <<n % 10>>

\* Python's int(s) on a string of decimal digits.
RECURSIVE ParseInt(_)
ParseInt(s) ==
    IF Len(s) = 0 THEN 0
    ELSE 10 * ParseInt(SubSeq(s, 1, Len(s) - 1)) + s[Len(s)]

\* Python's str < str on digit strings: lexicographic, a proper prefix is smaller.
RECURSIVE StrLess(_, _)
StrLess(a, b) ==
    IF Len(b) = 0 THEN FALSE
    ELSE IF Len(a) = 0 THEN TRUE
    ELSE IF a[1] # b[1] THEN a[1] < b[1]
    ELSE StrLess(Tail(a), Tail(b))

NodeKeys == { Dec(n) : n \in 0..MaxNodeId }

\* An image descriptor; "subfolder" is optional.
Image(stem, suffix, hasSub) ==
    [filename |-> [stem |-> stem, suffix |-> suffix],
     hasSubfolder |-> hasSub,
     subfolder |-> IF hasSub THEN "sub" ELSE "<none>"]

\* An output node; "images" is optional (a node may hold other kinds of output).
OutNode(hasImages, images) == [hasImages |-> hasImages, images |-> images]

\* The shapes of output node k: no "images" key, an empty list, one image, two images.
NodeShape(k, shape) ==
    CASE shape = 0 -> OutNode(FALSE, <<>>)
      [] shape = 1 -> OutNode(TRUE, <<>>)
      [] shape = 2 -> OutNode(TRUE, <<Image(<<k, 1>>, ".jpg", TRUE)>>)
      [] OTHER     -> OutNode(TRUE, <<Image(<<k, 1>>, ".jpg", TRUE), Image(<<k, 2>>, "", FALSE)>>)

\* The key sets of an outputs mapping of at most MaxNodes nodes.
OutputKeySets == { S \in SUBSET NodeKeys : Cardinality(S) <= MaxNodes }

\* The outputs mapping over the keys K whose node k has the shape g[k].
OutputsOf(K, g) == [k \in K |-> NodeShape(k, g[k])]

\* The per-job status object of a history record; "status", "completed" and "outputs"
\* are optional.
StatusObj(hasStatus, hasCompleted, completed, hasOutputs, outputs) ==
    [hasStatus |-> hasStatus, hasCompleted |-> hasCompleted, completed |-> completed,
     hasOutputs |-> hasOutputs, outputs |-> outputs]

NoData == StatusObj(FALSE, FALSE, FALSE, FALSE, EmptyMap)

\* The outputs a completed job reports in the history responses of a generar run.
ServerOutputs ==
    { EmptyMap,
      (Dec(9) :> NodeShape(Dec(9), 0)),
      (Dec(9) :> NodeShape(Dec(9), 1)),
      (Dec(9) :> NodeShape(Dec(9), 2)),
      (Dec(2) :> NodeShape(Dec(2), 2)) @@ (Dec(10) :> NodeShape(Dec(10), 3))
          @@ (Dec(9) :> NodeShape(Dec(9), 2)) }

CompletedData ==
    { StatusObj(TRUE, TRUE, TRUE, FALSE, EmptyMap) }
    \cup { StatusObj(TRUE, TRUE, TRUE, TRUE, o) : o \in ServerOutputs }

PendingData ==
    { NoData,
      StatusObj(TRUE, FALSE, FALSE, FALSE, EmptyMap),
      StatusObj(TRUE, TRUE, FALSE, TRUE, (Dec(9) :> NodeShape(Dec(9), 2))) }

\* The JSON bodies GET /history/<id> may answer with.
HistResponses ==
    { EmptyMap, (OtherId :> NoData) }
    \cup { (JobId :> d) : d \in PendingData \cup CompletedData }
    \cup { (OtherId :> NoData) @@ (JobId :> d) : d \in {NoData} }

\* The mappings _post_prompt is called with directly: a bare workflow, or one
\* already wrapped under "prompt".
PostInputs == Workflows \cup {EmptyMap} \cup { [prompt |-> w] : w \in Workflows }

\* ------------------------------------------------------------ _post_prompt
\* The request envelope with the already-wrapped test left out.
PostPayloadAlwaysWrap(wf) == [prompt |-> wf]

\* Lines 30-33: a single-key mapping holding "prompt" is sent as it is, anything else
\* is wrapped under "prompt".
PostPayload(wf) ==
    IF "prompt" \in DOMAIN wf /\ Cardinality(DOMAIN wf) = 1
    THEN wf
    ELSE [prompt |-> wf]

\* ------------------------------------------------------------ _wait_until_done
\* Line 51: not hist or prompt_id not in hist.
HistNotPresent(hist) == DOMAIN hist = {} \/ JobId \notin DOMAIN hist

\* The completion test passing as soon as the record has a "status".
IsCompletedAnyStatus(data) == data.hasStatus

\* Line 58: data.get("status", {}).get("completed", False).
IsCompleted(data) ==
    IF data.hasStatus
    THEN (IF data.hasCompleted THEN data.completed ELSE FALSE)
    ELSE FALSE

\* The timeout test firing already when the elapsed time equals the timeout.
TimedOutAtLimit(now, start, limit) == now - start >= limit

\* Lines 52 and 59: time.time() - t0 > timeout.
TimedOut(now, start, limit) == now - start > limit

\* The loop body with the timeout test hoisted above the completion test.
PollOutcomeTimeoutFirst(hist, now, start, limit) ==
    IF TimedOut(now, start, limit) THEN "TimeoutError"
    ELSE IF HistNotPresent(hist) THEN "sleep"
    ELSE IF ~IsCompleted(hist[JobId]) THEN "sleep"
    ELSE "return"

\* Lines 51-63: what one iteration does with the history it fetched, the clock being
\* read after the GET: raise TimeoutError, sleep and poll again, or return the record.
PollOutcome(hist, now, start, limit) ==
    IF HistNotPresent(hist)
    THEN (IF TimedOut(now, start, limit) THEN "TimeoutError" ELSE "sleep")
    ELSE IF ~IsCompleted(hist[JobId])
         THEN (IF TimedOut(now, start, limit) THEN "TimeoutError" ELSE "sleep")
         ELSE "return"

\* ------------------------------------------------------------ _pick_last_image
\* The keys in ascending order of int(key), smallest first.
RECURSIVE SortByInt(_)
SortByInt(S) ==
    IF S = {} THEN <<>>
    ELSE LET m == CHOOSE k \in S : \A j \in S : ParseInt(k) <= ParseInt(j)
         IN  <<m>> \o SortByInt(S \ {m})

\* The keys in ascending order of the strings themselves, smallest first.
RECURSIVE SortByStr(_)
SortByStr(S) ==
    IF S = {} THEN <<>>
    ELSE LET m == CHOOSE k \in S : \A j \in S : ~StrLess(j, k)
         IN  <<m>> \o SortByStr(S \ {m})

\* sorted(outputs.keys()) without key=int: the order of the strings.
SortedKeysLex(keys) == SortByStr(keys)

\* Line 74: sorted(outputs.keys(), key=int).
SortedKeys(keys) == SortByInt(keys)

NoFilename == [stem |-> <<>>, suffix |-> ""]
PickRaise(err) == [err |-> err, filename |-> NoFilename, subfolder |-> ""]
PickReturn(filename, subfolder) == [err |-> "none", filename |-> filename, subfolder |-> subfolder]
NotPicked == PickRaise("not called")

\* Lines 66-80: ValueError without "outputs" or with empty outputs; the node of the
\* numerically largest key; KeyError when it has no "images", ValueError when the
\* list is empty; else the last image's filename and its subfolder, "" by default.
PickLastImage(hist) ==
    IF ~hist.hasOutputs THEN PickRaise("ValueError")
    ELSE IF DOMAIN hist.outputs = {} THEN PickRaise("ValueError")
    ELSE LET sorted == SortedKeys(DOMAIN hist.outputs)
             last_node == sorted[Len(sorted)]
             node == hist.outputs[last_node]
         IN  IF ~node.hasImages THEN PickRaise("KeyError")
             ELSE IF node.images = <<>> THEN PickRaise("ValueError")
             ELSE LET last_image == node.images[Len(node.images)]
                  IN  PickReturn(last_image.filename,
                                 IF last_image.hasSubfolder THEN last_image.subfolder ELSE "")

\* ------------------------------------------------------------ _download_image
Tokens == {"uuid-a", "uuid-b"}     \* the values uuid.uuid4().hex may take

\* Lines 94-95: the remote file's suffix, ".png" when it has none, after a fresh token.
LocalPath(filename, token) ==
    [token |-> token, ext |-> IF filename.suffix = "" THEN ".png" ELSE filename.suffix]

NoPath == [token |-> "<none>", ext |-> ""]

\* ------------------------------------------------------------ state
Req(req, ok) == [req |-> req, ok |-> ok]

NoObs == [seen |-> FALSE, ok |-> FALSE, hist |-> EmptyMap, elapsed |-> 0]
NoRet == [has |-> FALSE, data |-> NoData]

Idle ==
    /\ result = "running"
    /\ body = <<>>
    /\ clock = 0
    /\ t0 = 0
    /\ lastObs = NoObs
    /\ sawPending = FALSE
    /\ pollRet = NoRet
    /\ picked = NotPicked
    /\ log = <<>>
    /\ files = {}
    /\ retPath = NoPath

\* A call of generar(workflow_path, prompt_text, host, out_dir, poll_interval, timeout).
InitGenerar ==
    /\ entry = "generar"
    /\ pc = "load"
    /\ fileValid \in BOOLEAN
    /\ workflow \in (IF fileValid THEN Workflows ELSE {EmptyMap})
    /\ timeout \in 0..MaxTimeout
    /\ poll \in 0..MaxPoll
    /\ postArg = EmptyMap
    /\ pickArg = NoData

\* A call of _post_prompt(workflow, host).
InitPostPrompt ==
    /\ entry = "_post_prompt"
    /\ pc = "submit"
    /\ fileValid = TRUE
    /\ workflow = EmptyMap
    /\ timeout = 0
    /\ poll = 0
    /\ postArg \in PostInputs
    /\ pickArg = NoData

\* A call of _pick_last_image(hist).
InitPickLastImage ==
    /\ entry = "_pick_last_image"
    /\ pc = "pick"
    /\ fileValid = TRUE
    /\ workflow = EmptyMap
    /\ timeout = 0
    /\ poll = 0
    /\ postArg = EmptyMap
    /\ \E hasOutputs \in BOOLEAN :
       \E K \in (IF hasOutputs THEN OutputKeySets ELSE {{}}) :
       \E g \in [K -> 0..3] :
          pickArg = StatusObj(TRUE, TRUE, TRUE, hasOutputs, OutputsOf(K, g))

Init == Idle /\ (InitGenerar \/ InitPostPrompt \/ InitPickLastImage)

\* ------------------------------------------------------------ generar
\* The load step letting a workflow without node "6" through.
LoadOutcomeNoNodeCheck(valid, wf) ==
    IF ~valid THEN "JSONDecodeError"
    ELSE IF "6" \in DOMAIN wf /\ ~wf["6"].hasInputs THEN "KeyError"
    ELSE "ok"

\* Lines 114-119: json.loads raises JSONDecodeError on invalid JSON; workflow["6"]
\* and nodo_6["inputs"] raise KeyError when absent.
LoadOutcome(valid, wf) ==
    IF ~valid THEN "JSONDecodeError"
    ELSE IF "6" \notin DOMAIN wf THEN "KeyError"
    ELSE IF ~wf["6"].hasInputs THEN "KeyError"
    ELSE "ok"

\* Line 119: nodo_6["inputs"]["text"] = prompt_text.
InjectPrompt(wf) ==
    [k \in DOMAIN wf |-> IF k = "6" THEN [wf[k] EXCEPT !.text = PromptText] ELSE wf[k]]

Raise(err) == result' = err /\ pc' = "done"

\* A response's status going unchecked.
RaiseForStatusIgnored(ok) == "ok"

\* Lines 37, 47 and 92: r.raise_for_status() raises HTTPError on a non-success status.
RaiseForStatus(ok) == IF ok THEN "ok" ELSE "HTTPError"

\* Lines 113-122: load the workflow, overwrite node 6's text, wrap it under "prompt".
Load ==
    /\ entry = "generar"
    /\ pc = "load"
    /\ LET outcome == LoadOutcome(fileValid, workflow)
       IN  IF outcome = "ok"
           THEN /\ workflow' = InjectPrompt(workflow)
                /\ postArg' = [prompt |-> workflow']
                /\ pc' = "submit"
                /\ UNCHANGED result
           ELSE /\ Raise(outcome)
                /\ UNCHANGED <<workflow, postArg>>
    /\ UNCHANGED <<entry, fileValid, timeout, poll, body, clock, t0, lastObs, sawPending,
                   pollRet, pickArg, picked, log, files, retPath>>

\* The step after a successful submit when the poll is skipped.
AfterSubmitSkipPoll == IF entry = "generar" THEN "download" ELSE "done"

\* Lines 125-128: generar goes on to _wait_until_done; a direct call returns.
AfterSubmit == IF entry = "generar" THEN "poll" ELSE "done"

\* Lines 27-39 (and 125, 128 and 44 for generar): POST the envelope; raise_for_status
\* raises HTTPError, data["prompt_id"] raises KeyError when the field is absent.
PostPrompt ==
    /\ pc = "submit"
    /\ \E dur \in 1..MaxReqDur, ok \in BOOLEAN :
       \E hasId \in (IF ok THEN BOOLEAN ELSE {FALSE}) :
          /\ body' = Append(body, PostPayload(postArg))
          /\ log' = Append(log, Req("POST /prompt", ok))
          /\ clock' = clock + dur
          /\ IF RaiseForStatus(ok) # "ok" THEN Raise("HTTPError") /\ UNCHANGED t0
             ELSE IF ~hasId THEN Raise("KeyError") /\ UNCHANGED t0
             ELSE /\ pc' = AfterSubmit
                  /\ result' = IF pc' = "done" THEN "returned" ELSE result
                  /\ t0' = IF entry = "generar" THEN clock' ELSE t0
    /\ UNCHANGED <<entry, fileValid, workflow, timeout, poll, postArg, lastObs, sawPending,
                   pollRet, pickArg, picked, files, retPath>>

\* Whether a response shows the job id with status.completed not true.
ShowsPending(obs) ==
    /\ obs.seen /\ obs.ok
    /\ JobId \in DOMAIN obs.hist
    /\ ~(obs.hist[JobId].hasStatus /\ obs.hist[JobId].hasCompleted /\ obs.hist[JobId].completed)

\* Lines 45-63, one iteration up to the sleep: GET /history/<id>, raise_for_status,
\* then the outcome of the loop body on the JSON fetched.
PollGet ==
    /\ pc = "poll"
    /\ \E dur \in 1..MaxReqDur, ok \in BOOLEAN :
       \E hist \in (IF ok THEN HistResponses ELSE {EmptyMap}) :
          /\ clock' = clock + dur
          /\ log' = Append(log, Req("GET /history", ok))
          /\ lastObs' = [seen |-> TRUE, ok |-> ok, hist |-> hist, elapsed |-> clock' - t0]
          /\ sawPending' = (sawPending \/ ShowsPending(lastObs))
          /\ IF RaiseForStatus(ok) # "ok"
             THEN Raise("HTTPError") /\ UNCHANGED <<pollRet, pickArg>>
             ELSE LET outcome == PollOutcome(hist, clock', t0, timeout)
                  IN  CASE outcome = "TimeoutError" ->
                             Raise("TimeoutError") /\ UNCHANGED <<pollRet, pickArg>>
                        [] outcome = "sleep" ->
                             pc' = "sleep" /\ UNCHANGED <<result, pollRet, pickArg>>
                        [] OTHER ->
                             /\ pollRet' = [has |-> TRUE, data |-> hist[JobId]]
                             /\ pickArg' = hist[JobId]
                             /\ pc' = "pick"
                             /\ UNCHANGED result
    /\ UNCHANGED <<entry, fileValid, workflow, timeout, poll, postArg, body, t0, picked,
                   files, retPath>>

\* Lines 54-55 and 61: time.sleep(poll), then the next iteration.
PollSleep ==
    /\ pc = "sleep"
    /\ clock' = clock + poll
    /\ pc' = "poll"
    /\ UNCHANGED <<entry, result, fileValid, workflow, timeout, poll, postArg, body, t0,
                   lastObs, sawPending, pollRet, pickArg, picked, log, files, retPath>>

\* The step after a successful selection when the download is skipped.
AfterPickSkipDownload == "done"

\* Lines 129-132: generar goes on to _download_image; a direct call returns.
AfterPick == IF entry = "generar" THEN "download" ELSE "done"

\* Lines 66-80 (and 129 for generar): select the image or raise.
Pick ==
    /\ pc = "pick"
    /\ picked' = PickLastImage(pickArg)
    /\ IF picked'.err # "none" THEN Raise(picked'.err)
       ELSE /\ pc' = AfterPick
            /\ result' = IF pc' = "done" THEN "returned" ELSE result
    /\ UNCHANGED <<entry, fileValid, workflow, timeout, poll, postArg, body, clock, t0,
                   lastObs, sawPending, pollRet, pickArg, log, files, retPath>>

\* Lines 83-99 and 132-133: GET /view, raise_for_status, write the body to a freshly
\* named file in the output directory and return its path.
Download ==
    /\ pc = "download"
    /\ \E ok \in BOOLEAN, token \in Tokens :
          /\ log' = Append(log, Req("GET /view", ok))
          /\ IF RaiseForStatus(ok) = "ok"
             THEN /\ files' = files \cup {LocalPath(picked.filename, token)}
                  /\ retPath' = LocalPath(picked.filename, token)
                  /\ result' = "returned"
                  /\ pc' = "done"
             ELSE Raise("HTTPError") /\ UNCHANGED <<files, retPath>>
    /\ UNCHANGED <<entry, fileValid, workflow, timeout, poll, postArg, body, clock, t0,
                   lastObs, sawPending, pollRet, pickArg, picked>>

Next == Load \/ PostPrompt \/ PollGet \/ PollSleep \/ Pick \/ Download

Spec == Init /\ [][Next]_vars

\* The calls of generar alone.  The program is one thread that always runs its next
\* statement, and every request and every sleep is bounded, so an enabled step is
\* eventually taken.
GenerarCalls == Idle /\ InitGenerar

FairSpec == GenerarCalls /\ [][Next]_vars /\ WF_vars(Next)

\* ------------------------------------------------------------ properties
\* What the properties read off the state, stated on the raw JSON and the raw log.
HistReady(hist) ==
    /\ JobId \in DOMAIN hist
    /\ hist[JobId].hasStatus /\ hist[JobId].hasCompleted /\ hist[JobId].completed

ObservedNotReady == lastObs.seen /\ lastObs.ok /\ ~HistReady(lastObs.hist)
ObservedReady == lastObs.seen /\ lastObs.ok /\ HistReady(lastObs.hist)

Requests(req) == { i \in DOMAIN log : log[i].req = req }

\* C1 (safety part): a not-ready observation made with elapsed time at most the
\* timeout leaves the poller running (asleep or about to poll again) without a
\* returned record; one made with elapsed time above the timeout ends in TimeoutError;
\* TimeoutError is raised in no other situation.
C1_NotReadyRetriesUntilTimeout ==
    /\ (ObservedNotReady /\ lastObs.elapsed <= timeout)
          => (result = "running" /\ pc \in {"sleep", "poll"} /\ ~pollRet.has)
    /\ (ObservedNotReady /\ lastObs.elapsed > timeout)
          => (result = "TimeoutError" /\ pc = "done" /\ ~pollRet.has)
    /\ result = "TimeoutError" => (ObservedNotReady /\ lastObs.elapsed > timeout)
    /\ pc = "sleep" => (ObservedNotReady /\ lastObs.elapsed <= timeout)

\* C1: the safety part holds always, and a poller whose every successful GET is not
\* ready does not run forever: it ends, and by the safety part in TimeoutError unless
\* a GET failed.
C1_PendingJobEndsInTimeout ==
    /\ []C1_NotReadyRetriesUntilTimeout
    /\ [](pc \in {"poll", "sleep"} => <>(pc \notin {"poll", "sleep"}))
    /\ []((pc = "done" /\ ObservedNotReady) => result = "TimeoutError")

C1_Witness ==
    /\ result = "TimeoutError"
    /\ Cardinality(Requests("GET /history")) >= 3
    /\ lastObs.hist = EmptyMap

\* C2: the poller returns only at a poll that observes status.completed true, it
\* returns at once at such a poll, and what it returns is the per-job status object
\* that very poll fetched.
C2_ReturnsRecordOfCompletedPoll ==
    /\ pollRet.has => (ObservedReady /\ pollRet.data = lastObs.hist[JobId])
    /\ ObservedReady => (pollRet.has /\ pc \in {"pick", "download", "done"})
    /\ (pc = "pick" /\ entry = "generar") => pickArg = lastObs.hist[JobId]

C2_Witness ==
    /\ sawPending
    /\ pollRet.has
    /\ lastObs.elapsed <= timeout

\* C3: the requests of a generar call are one POST /prompt first, then history GETs,
\* then at most one GET /view last, each issued only after the previous request
\* succeeded; each step is entered only after the previous step succeeded; a
\* successful call returns the path the fetch step wrote.
C3_StrictSequence ==
    entry = "generar" =>
      /\ \A i \in DOMAIN log :
            /\ log[i].req = "POST /prompt" <=> i = 1
            /\ i > 1 => log[i - 1].ok
            /\ log[i].req = "GET /view" =>
                  (i = Len(log) /\ i > 2 /\ log[i - 1].req = "GET /history")
      /\ pc = "load" => (log = <<>> /\ result = "running")
      /\ pc = "submit" =>
            (log = <<>> /\ workflow["6"].text = PromptText /\ postArg = [prompt |-> workflow])
      /\ pc \in {"poll", "sleep"} =>
            (Len(log) >= 1 /\ log[Len(log)].ok /\ Requests("GET /view") = {})
      /\ pc = "pick" => (pollRet.has /\ log[Len(log)] = Req("GET /history", TRUE))
      /\ pc = "download" =>
            (picked.err = "none" /\ log[Len(log)] = Req("GET /history", TRUE))
      /\ result = "returned" =>
            /\ Len(log) >= 3
            /\ log[Len(log)] = Req("GET /view", TRUE)
            /\ picked.err = "none"
            /\ retPath \in files
            /\ retPath.token \in Tokens

C3_Witness ==
    /\ entry = "generar"
    /\ result = "returned"
    /\ Cardinality(Requests("GET /history")) >= 2

\* C4 as stated: every ended generar call made exactly one /view download and wrote
\* exactly one file.
C4_ExactlyOneImageWheneverEnded ==
    (entry = "generar" /\ pc = "done") =>
        (Cardinality(Requests("GET /view")) = 1 /\ Cardinality(files) = 1)

\* C4 amended: a generar call that returned made exactly one /view download, which
\* succeeded, and wrote exactly one file; no call makes more than one /view download
\* or writes more than one file.
C4_ExactlyOneImageOnSuccess ==
    entry = "generar" =>
      /\ Cardinality(Requests("GET /view")) <= 1
      /\ Cardinality(files) <= 1
      /\ (pc = "done" /\ result = "returned") =>
            /\ Cardinality(Requests("GET /view")) = 1
            /\ \A i \in Requests("GET /view") : log[i].ok
            /\ Cardinality(files) = 1

C4_Witness ==
    /\ entry = "generar"
    /\ pc = "done"
    /\ result = "returned"
    /\ Cardinality(files) = 1

\* C5: a generar call whose workflow file is not valid JSON, or whose workflow has no
\* node "6", issues no HTTP request and writes no file, and ends with JSONDecodeError
\* (ParseError), respectively KeyError (MissingNodeError).
C5_LoadFailsBeforeNetwork ==
    (entry = "generar" /\ (~fileValid \/ "6" \notin DOMAIN workflow)) =>
      /\ log = <<>>
      /\ body = <<>>
      /\ files = {}
      /\ pc \in {"load", "done"}
      /\ pc = "done" => result = (IF ~fileValid THEN "JSONDecodeError" ELSE "KeyError")

C5_Witness ==
    /\ entry = "generar"
    /\ fileValid
    /\ "6" \notin DOMAIN workflow
    /\ pc = "done"
    /\ result = "KeyError"

\* C6: a request that returned a non-success status is the last request of the call,
\* and the call has ended with HTTPError (TransportError).
C6_TransportFailureIsFinal ==
    \A i \in DOMAIN log :
        ~log[i].ok => (i = Len(log) /\ pc = "done" /\ result = "HTTPError")

C6_Witness ==
    /\ Len(log) >= 3
    /\ log[Len(log)] = Req("GET /history", FALSE)
    /\ lastObs.seen

\* The workflow a call is about: generar's mutated workflow, or the bare or the
\* pre-wrapped workflow _post_prompt was given.
TheWorkflow ==
    IF entry = "generar" THEN workflow
    ELSE IF DOMAIN postArg = {"prompt"} THEN postArg.prompt
    ELSE postArg

\* C7: every body POSTed has the single top-level key "prompt", its value is the
\* workflow itself, and that value is not again a mapping under "prompt".
C7_BodyWrappedOnce ==
    \A i \in DOMAIN body :
        /\ DOMAIN body[i] = {"prompt"}
        /\ body[i].prompt = TheWorkflow
        /\ "prompt" \notin DOMAIN body[i].prompt

C7_Witness ==
    /\ entry = "_post_prompt"
    /\ DOMAIN postArg = {"prompt"}
    /\ Len(body) = 1

\* The keys of the outputs whose integer value no other key exceeds.
NumericMaxKeys(outputs) ==
    { k \in DOMAIN outputs : \A j \in DOMAIN outputs : ParseInt(j) <= ParseInt(k) }

HasUsableImages(node) == node.hasImages /\ node.images # <<>>

\* C8: on non-empty outputs the selector returns an image exactly when the node of
\* the numerically largest key has a non-empty images list, and the image returned is
\* the last one of that node.
C8_PicksNumericMaxNode ==
    (picked # NotPicked /\ pickArg.hasOutputs /\ DOMAIN pickArg.outputs # {}) =>
        \A k \in NumericMaxKeys(pickArg.outputs) :
            LET node == pickArg.outputs[k]
            IN  IF HasUsableImages(node)
                THEN /\ picked.err = "none"
                     /\ picked.filename = node.images[Len(node.images)].filename
                ELSE picked.err # "none"

C8_Witness ==
    /\ DOMAIN pickArg.outputs = {Dec(2), Dec(10), Dec(9)}
    /\ picked.err = "none"
    /\ picked.filename.stem = <<Dec(10), 1>>

\* C9 as stated: when the status object has no "outputs", empty outputs, or a
\* numerically largest node without a non-empty images list, the selector raises
\* ValueError (ValidationError) and nothing else, and no /view request is made.
C9_UnusableOutputsRaiseValueError ==
    (/\ picked # NotPicked
     /\ \/ ~pickArg.hasOutputs
        \/ DOMAIN pickArg.outputs = {}
        \/ \E k \in NumericMaxKeys(pickArg.outputs) : ~HasUsableImages(pickArg.outputs[k]))
    => (picked.err = "ValueError" /\ result = "ValueError" /\ Requests("GET /view") = {})

\* C10: TimeoutError is raised only after a history GET that succeeded and was not
\* ready; a poll is issued whatever the elapsed time; a poll that observes
\* status.completed true returns the record whatever the elapsed time.
C10_TimeoutOnlyAfterNotReady ==
    /\ result = "TimeoutError" =>
          (Requests("GET /history") # {} /\ ObservedNotReady
           /\ log[Len(log)] = Req("GET /history", TRUE))
    /\ (pc = "poll" /\ clock - t0 > timeout) => result = "running"
    /\ (ObservedReady /\ lastObs.elapsed > timeout) =>
          (pollRet.has /\ pollRet.data = lastObs.hist[JobId] /\ result # "TimeoutError")

C10_Witness ==
    /\ pollRet.has
    /\ lastObs.elapsed > timeout
    /\ timeout > 0

====
